---- MODULE Spec2Model ----
(***************************************************************************)
(* A model of streamlit_app.py, the forklift-fleet dashboard.              *)
(*                                                                         *)
(* The program is a Streamlit script: every user interaction runs the      *)
(* script top to bottom once, for the selected page.  One action of this   *)
(* model is one such run with one button pressed.  The state is the seven  *)
(* warehouse tables the script appends to or deletes from, the current     *)
(* date, and what the last run left on the page (ui).                      *)
(*                                                                         *)
(* Values: dates are day numbers, hour meters / percentages / costs are    *)
(* integers in the unit of their widget.  A nullable column holds NULL     *)
(* (the empty set) or Some(v) (the singleton {v}).                         *)
(***************************************************************************)
EXTENDS Integers, Sequences, FiniteSets, TLC

VARIABLES
    forklifts,              \* OPERATIONS.FORKLIFTS
    operators,              \* OPERATIONS.OPERATORS
    batteries,              \* OPERATIONS.BATTERIES
    usage_log,              \* OPERATIONS.USAGE_LOG
    maintenance_schedule,   \* OPERATIONS.MAINTENANCE_SCHEDULE
    maintenance_records,    \* OPERATIONS.MAINTENANCE_RECORDS
    faults,                 \* OPERATIONS.FAULTS
    today,                  \* the current date (date.today(), CURRENT_DATE())
    ui                      \* the outcome of the last script run

vars == <<forklifts, operators, batteries, usage_log, maintenance_schedule,
          maintenance_records, faults, today, ui>>

store == <<forklifts, operators, batteries, usage_log, maintenance_schedule,
           maintenance_records, faults>>

-----------------------------------------------------------------------------
(* Bounds of the model. *)

\* No run is started once the tables hold this many rows in total.
MaxRows == 2

TotalRows ==
    Len(forklifts) + Len(operators) + Len(batteries) + Len(usage_log)
      + Len(maintenance_schedule) + Len(maintenance_records) + Len(faults)

\* The date of the first run.
Day0 == 100

-----------------------------------------------------------------------------
(* Python and SQL values. *)

NULL == {}
Some(v) == {v}

\* A variant without the `or None`: x is stored as entered.
AsEntered(x, falsy) == Some(x)

\* `x or None`: a falsy x (0, 0.0, "") becomes None.
OrNone(x, falsy) == IF x = falsy THEN NULL ELSE Some(x)

\* A timestamp: a date and a time of day.  datetime.now() is the current
\* date at the time of day the run happens.
Timestamp(day, time) == [day |-> day, time |-> time]
Midnight == "00:00"
ClockTimes == {"09:30"}

-----------------------------------------------------------------------------
(* The name `datetime`.  Line 5 binds it to the class datetime.datetime;   *)
(* an `import datetime` executed by the run rebinds it, for the rest of    *)
(* the run, to the module.                                                 *)

FromDatetimeImport == "class"
ImportDatetime == "module"

\* Whether the expression finds now(): datetime.now() needs the class,
\* datetime.datetime.now() needs the module.
NowResolves(binding, expr) ==
    \/ binding = "class"  /\ expr = "datetime.now"
    \/ binding = "module" /\ expr = "datetime.datetime.now"

-----------------------------------------------------------------------------
(* The store.  df.write.mode("append").save_as_table(t) is one round trip: *)
(* it appends the row, or fails (QueryError) and leaves the table alone.   *)

\* A variant of the write, mode("overwrite"): the row replaces the table.
SaveAsTableOverwrite(table, row, ok) == IF ok THEN <<row>> ELSE table

SaveAsTable(table, row, ok) == IF ok THEN Append(table, row) ELSE table

\* The exception raised, "" when none, where a page that imports nothing
\* calls datetime.now() for its row and then writes it (lines 396 and 413,
\* 619 and 638, 721 and 763).
NowThenWriteRaised(ok) ==
    IF ~NowResolves(FromDatetimeImport, "datetime.now") THEN "AttributeError"
    ELSE IF ~ok THEN "QueryError"
    ELSE ""

-----------------------------------------------------------------------------
(* What a run leaves behind.                                               *)
(*   outcome: "rerun"    st.rerun() was reached                            *)
(*            "stop"     st.stop() was reached                             *)
(*            "done"     the script ran to its last line                   *)
(*            "uncaught" an exception left the script                      *)
(*   banners: the messages the run showed, a subset of {"success",         *)
(*            "warning", "error", "info"}                                  *)
(*   exc:     the exception raised in the run ("" when none), whether an   *)
(*            except clause of the script caught it or not: "NameError",   *)
(*            "AttributeError", "QueryError" (the round trip failed) or    *)
(*            "SQLCompilationError" (the store refused the statement)      *)
(*   wrote:   whether the run sent a write to the store                    *)

Run(op, input, outcome, banners, exc, wrote, view) ==
    [op |-> op, input |-> input, outcome |-> outcome, banners |-> banners,
     exc |-> exc, wrote |-> wrote, view |-> view]

NoView == <<>>

Init ==
    /\ forklifts = <<>>
    /\ operators = <<>>
    /\ batteries = <<>>
    /\ usage_log = <<>>
    /\ maintenance_schedule = <<>>
    /\ maintenance_records = <<>>
    /\ faults = <<>>
    /\ today = Day0
    /\ ui = Run("start", <<>>, "done", {}, "", FALSE, NoView)

-----------------------------------------------------------------------------
(* Usage Logging / Log Usage (lines 363-415).                              *)

UsageRow(i, now) ==
    [FORKLIFT_ID |-> i.forklift_id,
     SHIFT_DATE |-> i.shift_date,
     START_HOUR_METER |-> i.start_hour_meter,
     END_HOUR_METER |-> i.end_hour_meter,
     BATTERY_START_SOC |-> i.battery_start_soc,
     BATTERY_END_SOC |-> i.battery_end_soc,
     ENERGY_CONSUMED_KWH |-> i.energy_consumed_kwh,
     NOTES |-> i.notes,
     LOGGED_AT |-> now]

\* A variant of the rule that turns equal readings away as well.
UsageRejectedOrEqual(i) == i.end_hour_meter <= i.start_hour_meter

\* A variant of the rule with its comparison turned around.
UsageRejectedAboveStart(i) == i.end_hour_meter > i.start_hour_meter

\* The cross-field rule of line 380.
UsageRejected(i) == i.end_hour_meter < i.start_hour_meter

LogUsage(i, ok) ==
    /\ TotalRows < MaxRows
    /\ IF UsageRejected(i)
       THEN \* st.error, st.stop()
            /\ ui' = Run("LogUsage", i, "stop", {"error"}, "", FALSE, NoView)
            /\ UNCHANGED usage_log
       ELSE \* no try/except: a failed write leaves the script
            /\ usage_log' =
                   IF NowThenWriteRaised(ok) = "AttributeError" THEN usage_log
                   ELSE SaveAsTable(usage_log,
                                    UsageRow(i, Timestamp(today, i.clock)), ok)
            /\ ui' = LET raised == NowThenWriteRaised(ok) IN
                     IF raised = ""
                     THEN Run("LogUsage", i, "rerun", {"success"}, "", TRUE, NoView)
                     ELSE Run("LogUsage", i, "uncaught", {}, raised,
                              raised = "QueryError", NoView)
    /\ UNCHANGED <<forklifts, operators, batteries, maintenance_schedule,
                   maintenance_records, faults, today>>

\* The form's widgets: hour meters and energy have min_value 0, the two
\* SOC inputs lie in [0, 100].
ForkliftIds == {"FL-1", "FL-2"}
UsageInputs ==
    [forklift_id : ForkliftIds,
     shift_date : {Day0},
     start_hour_meter : {0, 1},
     end_hour_meter : {0, 1},
     battery_start_soc : {100},
     battery_end_soc : {0, 100},
     energy_consumed_kwh : {0},
     notes : {""},
     clock : ClockTimes]

NextUsage == \E i \in UsageInputs, ok \in BOOLEAN : LogUsage(i, ok)

SpecUsage == Init /\ [][NextUsage]_vars

-----------------------------------------------------------------------------
(* Fleet Management / Add New Forklift (lines 103-174).                    *)

\* A variant that stores the warranty date whether the box is ticked or not.
WarrantyExpiryUnconditional(i) == Some(i.warranty_date)

\* Line 115: the warranty date is read only when the box is ticked.
WarrantyExpiry(i) ==
    IF i.has_warranty THEN Some(i.warranty_date) ELSE NULL

ForkliftRow(i, now) ==
    [FORKLIFT_ID |-> i.forklift_id,
     SERIAL_NUMBER |-> i.serial_number,
     MODEL |-> i.model,
     MANUFACTURE_YEAR |-> i.manufacture_year,
     PURCHASE_DATE |-> i.purchase_date,
     RATED_CAPACITY_KG |-> i.capacity,
     BATTERY_ID |-> NULL,
     LOCATION_SITE |-> i.location,
     STATUS |-> i.status,
     WARRANTY_EXPIRY |-> WarrantyExpiry(i),
     NOTES |-> i.notes,
     CREATED_AT |-> now,
     UPDATED_AT |-> NULL]

\* The exception the try block raises, "" when it raises none: now() is
\* looked up first (line 131), the write comes last (line 169).
ForkliftRaised(ok) ==
    IF ~NowResolves(ImportDatetime, "datetime.datetime.now") THEN "AttributeError"
    ELSE IF ~ok THEN "QueryError"
    ELSE ""

AddForklift(i, ok) ==
    /\ TotalRows < MaxRows
    /\ LET raised == ForkliftRaised(ok) IN
       /\ forklifts' = IF raised = "AttributeError" THEN forklifts
                       ELSE SaveAsTable(forklifts,
                                ForkliftRow(i, Timestamp(today, i.clock)), ok)
       /\ ui' = IF raised = ""
                THEN \* st.success, st.rerun(): RerunException is no Exception
                     Run("AddForklift", i, "rerun", {"success"}, "", TRUE, NoView)
                ELSE \* except Exception: st.error
                     Run("AddForklift", i, "done", {"error"}, raised,
                         raised = "QueryError", NoView)
    /\ UNCHANGED <<operators, batteries, usage_log, maintenance_schedule,
                   maintenance_records, faults, today>>

\* REFERENCE.FORKLIFT_STATUS, read at line 120.
ForkliftStatusOptions == {"Operational", "In Maintenance"}

\* Text inputs may be left empty; the year lies in [2000, 2030] and the
\* capacity in [500, 10000].
ForkliftInputs ==
    [forklift_id : {"", "FL-1", "FL-2"},
     serial_number : {"SN-1"},
     model : {"Toyota 8FBE25"},
     manufacture_year : {2000},
     purchase_date : {Day0},
     has_warranty : BOOLEAN,
     warranty_date : {Day0},
     capacity : {500},
     location : {""},
     status : ForkliftStatusOptions,
     notes : {""},
     clock : ClockTimes]

NextFleet == \E i \in ForkliftInputs, ok \in BOOLEAN : AddForklift(i, ok)

SpecFleet == Init /\ [][NextFleet]_vars

-----------------------------------------------------------------------------
(* Operator Management (lines 180-246).                                    *)

\* The name `df` after the "View Operators" tab (lines 187-192): bound to a
\* pandas DataFrame when the table has rows, not bound at all otherwise.
DfAfterView(data) == IF data # <<>> THEN "pandas" ELSE "unbound"

\* Lines 207-215: the columns of the row, in this order.
OperatorColumns == {"EMPLOYEE_ID", "FULL_NAME", "EMPLOYMENT_YEAR", "IS_ACTIVE"}

OperatorRow(i) ==
    [EMPLOYEE_ID |-> i.employee_id,
     FULL_NAME |-> i.full_name,
     EMPLOYMENT_YEAR |-> i.employment_year,
     IS_ACTIVE |-> i.is_active]

\* Line 204.
OperatorInvalid(i) == i.full_name = "" \/ i.employee_id = ""

\* What `df` is when line 217 runs: the else branch (line 207) binds it to
\* a Snowpark DataFrame; after the error branch it is what the first tab
\* left.
DfAtWrite(i, data) ==
    IF OperatorInvalid(i) THEN DfAfterView(data) ELSE "snowpark"

\* The exception line 217 raises, "" when none: a name that is not bound,
\* a pandas DataFrame (which has no .write), or the failing round trip.
OperatorRaised(i, data, ok) ==
    LET df == DfAtWrite(i, data) IN
    IF df = "unbound" THEN "NameError"
    ELSE IF df = "pandas" THEN "AttributeError"
    ELSE IF ~ok THEN "QueryError"
    ELSE ""

AddOperator(i, ok) ==
    /\ TotalRows < MaxRows
    /\ LET raised == OperatorRaised(i, operators, ok)
           shown == IF OperatorInvalid(i) THEN {"error"} ELSE {}
       IN
       /\ operators' = IF DfAtWrite(i, operators) = "snowpark"
                       THEN SaveAsTable(operators, OperatorRow(i), ok)
                       ELSE operators
       /\ ui' = IF raised = ""
                THEN Run("AddOperator", i, "rerun", shown \cup {"success"}, "",
                         TRUE, NoView)
                ELSE \* no try/except around line 217
                     Run("AddOperator", i, "uncaught", shown, raised,
                         raised = "QueryError", NoView)
    /\ UNCHANGED <<forklifts, batteries, usage_log, maintenance_schedule,
                   maintenance_records, faults, today>>

\* Lines 229-232: the label of an operator in the selectbox.
OperatorLabel(row) == row.FULL_NAME \o " (ID: " \o row.EMPLOYEE_ID \o ")"

\* op_map: a dict, so of the rows with one label the last one is kept.
OpMapKeys(data) == {OperatorLabel(data[k]) : k \in 1..Len(data)}
OpMap(data, label) ==
    LET ks == {k \in 1..Len(data) : OperatorLabel(data[k]) = label}
        last == CHOOSE k \in ks : \A j \in ks : j <= k
    IN data[last].EMPLOYEE_ID

\* The literals of the model's ids that SQL reads as numbers; any other id,
\* interpolated without quotes, is read as an identifier.
NumericLiterals == {"7"}

\* DELETE FROM <table> WHERE <column> = <literal> against a table of the
\* given columns: the statement compiles when the column exists and the
\* literal is a number; then it removes the rows whose column equals it.
DeleteCompiles(columns, column, literal) ==
    column \in columns /\ literal \in NumericLiterals

DeleteWhere(data, column, literal) ==
    SelectSeq(data, LAMBDA row : row[column] # literal)

\* Line 239: the column the statement names.
DeleteColumn == "OPERATOR_ID"

DeleteOperator(selected, ok) ==
    /\ operators # <<>>
    /\ selected \in OpMapKeys(operators)
    /\ LET op_id == OpMap(operators, selected)
           compiles == DeleteCompiles(OperatorColumns, DeleteColumn, op_id)
       IN
       IF compiles /\ ok
       THEN \* st.warning("... deleted successfully!"), st.rerun()
            /\ operators' = DeleteWhere(operators, DeleteColumn, op_id)
            /\ ui' = Run("DeleteOperator", [selected |-> selected, op_id |-> op_id],
                         "rerun", {"warning"}, "", TRUE, NoView)
       ELSE \* no try/except around line 238
            /\ UNCHANGED operators
            /\ ui' = Run("DeleteOperator", [selected |-> selected, op_id |-> op_id],
                         "uncaught", {},
                         IF ok THEN "SQLCompilationError" ELSE "QueryError",
                         TRUE, NoView)
    /\ UNCHANGED <<forklifts, batteries, usage_log, maintenance_schedule,
                   maintenance_records, faults, today>>

\* The employment date may be left unset (value=None at line 200).
OperatorInputs ==
    [full_name : {"", "Ada"},
     employee_id : {"", "E1", "7"},
     employment_year : {NULL},
     is_active : BOOLEAN]

NextOperators ==
    \/ \E i \in OperatorInputs, ok \in BOOLEAN : AddOperator(i, ok)
    \/ \E selected \in OpMapKeys(operators), ok \in BOOLEAN :
           DeleteOperator(selected, ok)

SpecOperators == Init /\ [][NextOperators]_vars

-----------------------------------------------------------------------------
(* Battery Management / Add Battery (lines 266-348).                       *)

\* get_forklift_list (lines 33-34) and lines 276-278: the choices of the
\* "Assigned Forklift" selectbox.
ForkliftChoices(data) ==
    {"None"} \cup {data[k].FORKLIFT_ID : k \in 1..Len(data)}

\* Line 303.
AssignedForklift(assigned) ==
    IF assigned = "None" THEN NULL ELSE Some(assigned)

BatteryRow(i, now) ==
    [BATTERY_ID |-> i.battery_id,
     BATTERY_SERIAL |-> i.serial,
     FORKLIFT_ID |-> AssignedForklift(i.assigned),
     VOLTAGE |-> i.voltage,
     CAPACITY_AH |-> i.ah,
     PURCHASE_DATE |-> i.purchase,
     TOTAL_CYCLES |-> 0,
     HEALTH_PERCENTAGE |-> i.health,
     LAST_FULL_CHARGE |-> NULL,
     STATUS |-> i.status,
     CREATED_AT |-> now,
     UPDATED_AT |-> NULL]

\* The exception the try block raises, "" when none.  Line 295 rebinds
\* `datetime` to the module and line 305 then calls datetime.now().
BatteryRaised(ok) ==
    IF ~NowResolves(ImportDatetime, "datetime.now") THEN "AttributeError"
    ELSE IF ~ok THEN "QueryError"
    ELSE ""

AddBattery(i, ok) ==
    /\ TotalRows < MaxRows
    /\ i.assigned \in ForkliftChoices(forklifts)
    /\ LET raised == BatteryRaised(ok) IN
       /\ batteries' = IF raised = "AttributeError" THEN batteries
                       ELSE SaveAsTable(batteries,
                                BatteryRow(i, Timestamp(today, i.clock)), ok)
       /\ ui' = IF raised = ""
                THEN Run("AddBattery", i, "rerun", {"success"}, "", TRUE, NoView)
                ELSE \* except Exception: st.error
                     Run("AddBattery", i, "done", {"error"}, raised,
                         raised = "QueryError", NoView)
    /\ UNCHANGED <<forklifts, operators, usage_log, maintenance_schedule,
                   maintenance_records, faults, today>>

\* REFERENCE.BATTERY_STATUS, read at line 288.
BatteryStatusOptions == {"Charging", "In Use"}

\* Within the widgets' bounds: id >= 1, voltage in [12, 80], capacity in
\* [100, 1000], health in [0, 100].
BatteryInputs ==
    [battery_id : {7},
     serial : {"", "BX-9"},
     assigned : {"None", "FL-1", "FL-2"},
     voltage : {48},
     ah : {400},
     purchase : {Day0},
     health : {0, 92, 100},
     status : BatteryStatusOptions,
     clock : ClockTimes]

\* The forklifts the battery page is tried with.
BatteryPageForklifts ==
    {i \in ForkliftInputs : i.forklift_id # "" /\ i.status = "Operational"}

NextBatteries ==
    \/ \E i \in BatteryPageForklifts, ok \in BOOLEAN : AddForklift(i, ok)
    \/ \E i \in BatteryInputs, ok \in BOOLEAN : AddBattery(i, ok)

SpecBatteries == Init /\ [][NextBatteries]_vars

\* The two forms with bounded percentages, Log Usage and Add Battery, for
\* one forklift and an unassigned battery.
NextPercentages ==
    \/ \E i \in {u \in UsageInputs : u.forklift_id = "FL-1"}, ok \in BOOLEAN :
           LogUsage(i, ok)
    \/ \E i \in {b \in BatteryInputs :
                    b.assigned = "None" /\ b.status = "Charging"},
          ok \in BOOLEAN :
           AddBattery(i, ok)

SpecPercentages == Init /\ [][NextPercentages]_vars

-----------------------------------------------------------------------------
(* Maintenance / Add Maintenance Task (lines 456-520).                     *)

\* Line 475.
TaskInvalid(i) == i.forklift_id = "" \/ i.task_name = ""

\* Lines 478-483, computed in the else branch of the validation.
MonthDays == 30
NextDueDate(i) ==
    IF i.frequency_months > 0
    THEN Some(i.last_date + i.frequency_months * MonthDays)
    ELSE NULL
NextDueHours(i) ==
    IF i.frequency_hours > 0
    THEN Some(i.last_hours + i.frequency_hours)
    ELSE NULL

\* Lines 486-515: the row handed to the store.  Columns 8 and 9 are the
\* form's "Next Due Date" and "Next Due Hours" inputs.
TaskRow(i) ==
    [FORKLIFT_ID |-> i.forklift_id,
     TASK_NAME |-> i.task_name,
     TYPE |-> i.type,
     FREQUENCY_HOURS |-> i.frequency_hours,
     FREQUENCY_MONTHS |-> i.frequency_months,
     LAST_PERFORMED_DATE |-> i.last_date,
     LAST_PERFORMED_HOUR_METER |-> i.last_hours,
     NEXT_DUE_DATE |-> Some(i.next_date),
     NEXT_DUE_HOURS |-> Some(i.next_hours),
     IS_ACTIVE |-> i.is_active,
     NOTES |-> i.notes]

\* Whether the run reaches the write of line 518: lines 486-520 stand in
\* the body of `if submit_button`, after the if/else of the validation.
TaskWriteReached(i) == TRUE

SaveMaintenanceTask(i, ok) ==
    /\ TotalRows < MaxRows
    /\ LET shown == IF TaskInvalid(i) THEN {"error"} ELSE {}
           wrote == TaskWriteReached(i)
       IN
       /\ maintenance_schedule' =
              IF wrote THEN SaveAsTable(maintenance_schedule, TaskRow(i), ok)
              ELSE maintenance_schedule
       /\ ui' = IF ~wrote
                THEN Run("SaveMaintenanceTask", i, "done", shown, "", FALSE, NoView)
                ELSE IF ok
                THEN Run("SaveMaintenanceTask", i, "rerun", shown \cup {"success"},
                         "", TRUE, NoView)
                ELSE \* no try/except around line 518
                     Run("SaveMaintenanceTask", i, "uncaught", shown,
                         "QueryError", TRUE, NoView)
    /\ UNCHANGED <<forklifts, operators, batteries, usage_log,
                   maintenance_records, faults, today>>

\* The date inputs default to today and cannot be cleared; the numeric
\* inputs have min_value 0.
TaskInputs ==
    {i \in [forklift_id : {"", "FL-1"},
            task_name : {"", "Oil"},
            type : {"PREVENTIVE"},
            frequency_hours : {0, 10},
            frequency_months : {0, 2},
            last_date : {Day0},
            last_hours : {5},
            next_date : {Day0},
            next_hours : {0},
            is_active : {TRUE},
            notes : {""}] :
        i.forklift_id # "" \/ i.task_name # ""}

NextSchedule == \E i \in TaskInputs, ok \in BOOLEAN : SaveMaintenanceTask(i, ok)

SpecSchedule == Init /\ [][NextSchedule]_vars

-----------------------------------------------------------------------------
(* Maintenance History / Log Maintenance (lines 550-640).                  *)

\* Line 602.
RecordInvalid(i) == i.forklift_id = ""

RecordRow(i, now) ==
    [FORKLIFT_ID |-> i.forklift_id,
     WORK_ORDER_NUMBER |-> OrNone(i.work_order_number, ""),
     PERFORMED_DATE |-> i.performed_date,
     HOUR_METER |-> OrNone(i.hour_meter, 0),
     TECHNICIAN |-> OrNone(i.technician, ""),
     TASK_DESCRIPTION |-> OrNone(i.task_description, ""),
     PARTS_USED |-> OrNone(i.parts_used, ""),
     LABOR_HOURS |-> OrNone(i.labor_hours, 0),
     COST |-> OrNone(i.cost, 0),
     DOWNTIME_HOURS |-> OrNone(i.downtime_hours, 0),
     STATUS |-> i.status,
     CREATED_AT |-> now]

LogMaintenance(i, ok) ==
    /\ TotalRows < MaxRows
    /\ IF RecordInvalid(i)
       THEN \* st.error; the script runs on to its end
            /\ UNCHANGED maintenance_records
            /\ ui' = Run("LogMaintenance", i, "done", {"error"}, "", FALSE, NoView)
       ELSE \* no try/except around line 638
            /\ maintenance_records' =
                   IF NowThenWriteRaised(ok) = "AttributeError"
                   THEN maintenance_records
                   ELSE SaveAsTable(maintenance_records,
                                    RecordRow(i, Timestamp(today, i.clock)), ok)
            /\ ui' = LET raised == NowThenWriteRaised(ok) IN
                     IF raised = ""
                     THEN Run("LogMaintenance", i, "rerun", {"success"}, "",
                              TRUE, NoView)
                     ELSE Run("LogMaintenance", i, "uncaught", {}, raised,
                              raised = "QueryError", NoView)
    /\ UNCHANGED <<forklifts, operators, batteries, usage_log,
                   maintenance_schedule, faults, today>>

\* The 30-day window of lines 785, 805 and 839.
WindowDays == 30

\* Performed dates: today, the first day of the window, the day before it.
PerformedDates == {Day0, Day0 - WindowDays, Day0 - WindowDays - 1}

\* The numeric inputs have min_value 0.
RecordInputs ==
    [forklift_id : {""} \cup ForkliftIds,
     work_order_number : {""},
     performed_date : PerformedDates,
     hour_meter : {0},
     technician : {""},
     task_description : {""},
     parts_used : {""},
     labor_hours : {0},
     cost : {0, 100},
     downtime_hours : {0},
     status : {"Completed"},
     clock : ClockTimes]

-----------------------------------------------------------------------------
(* Analytics / Maintenance Cost Summary by Forklift (lines 818-862).       *)

\* The value of a column that is not NULL.
ValueOf(x) == CHOOSE v \in x : TRUE

\* SQL SUM over a column: NULLs are skipped, and the sum of no value at
\* all is NULL.
RECURSIVE SqlSum(_)
SqlSum(column) ==
    IF column = <<>> THEN NULL
    ELSE LET rest == SqlSum(Tail(column))
             head == Head(column)
         IN IF head = NULL THEN rest
            ELSE IF rest = NULL THEN head
            ELSE Some(ValueOf(head) + ValueOf(rest))

\* The COST column of one forklift's rows.
RECURSIVE CostsOf(_, _)
CostsOf(data, forklift_id) ==
    IF data = <<>> THEN <<>>
    ELSE IF Head(data).FORKLIFT_ID = forklift_id
         THEN <<Head(data).COST>> \o CostsOf(Tail(data), forklift_id)
         ELSE CostsOf(Tail(data), forklift_id)

GroupKeys(data) == {data[k].FORKLIFT_ID : k \in 1..Len(data)}

\* Lines 827-833: group_by(FORKLIFT_ID).agg(sum(COST)).
TotalCostDf(data) ==
    {[FORKLIFT_ID |-> f, TOTAL_MAINTENANCE_COST |-> SqlSum(CostsOf(data, f))] :
        f \in GroupKeys(data)}

\* Line 839: PERFORMED_DATE >= DATEADD(day, -30, CURRENT_DATE()).
InLast30Days(row, now) == row.PERFORMED_DATE >= now - WindowDays

\* Lines 836-845.
Last30DaysCostDf(data, now) ==
    LET recent == SelectSeq(data, LAMBDA row : InLast30Days(row, now)) IN
    {[FORKLIFT_ID |-> f, LAST_30_DAYS_COST |-> SqlSum(CostsOf(recent, f))] :
        f \in GroupKeys(recent)}

\* A variant of the join, how="inner": only the pairs of matching rows.
InnerJoin(left, right) ==
    {[FORKLIFT_ID |-> l.FORKLIFT_ID,
      TOTAL_MAINTENANCE_COST |-> l.TOTAL_MAINTENANCE_COST,
      LAST_30_DAYS_COST |-> r.LAST_30_DAYS_COST] :
        <<l, r>> \in {p \in left \X right : p[1].FORKLIFT_ID = p[2].FORKLIFT_ID}}

\* Lines 850-854: join(on FORKLIFT_ID, how="left"): every pair of matching
\* rows, and every left row without a match, padded with NULL.
LeftJoin(left, right) ==
    {[FORKLIFT_ID |-> l.FORKLIFT_ID,
      TOTAL_MAINTENANCE_COST |-> l.TOTAL_MAINTENANCE_COST,
      LAST_30_DAYS_COST |-> r.LAST_30_DAYS_COST] :
        <<l, r>> \in {p \in left \X right : p[1].FORKLIFT_ID = p[2].FORKLIFT_ID}}
    \cup
    {[FORKLIFT_ID |-> l.FORKLIFT_ID,
      TOTAL_MAINTENANCE_COST |-> l.TOTAL_MAINTENANCE_COST,
      LAST_30_DAYS_COST |-> NULL] :
        l \in {x \in left : \A r \in right : r.FORKLIFT_ID # x.FORKLIFT_ID}}

\* Line 855: fillna({"LAST_30_DAYS_COST": 0}).
FillNa(rows) ==
    {[r EXCEPT !.LAST_30_DAYS_COST = IF @ = NULL THEN Some(0) ELSE @] : r \in rows}

\* A variant of the order, ORDER BY ... DESC NULLS FIRST.
DescNullsFirst(a, b) == a = NULL \/ (b # NULL /\ ValueOf(a) >= ValueOf(b))

\* Line 856: Column.desc() of the dataframe library is ORDER BY ... DESC
\* NULLS LAST; equal values come in any order.
DescBefore(a, b) == b = NULL \/ (a # NULL /\ ValueOf(a) >= ValueOf(b))

\* Line 856: the orders sort(TOTAL_MAINTENANCE_COST desc) may return: any
\* row that no other row must precede, then the rest in the same way.
RECURSIVE SortedDesc(_)
SortedDesc(rows) ==
    IF rows = {} THEN {<<>>}
    ELSE UNION {{<<m>> \o s : s \in SortedDesc(rows \ {m})} :
                   m \in {r \in rows :
                             \A q \in rows :
                                 DescBefore(r.TOTAL_MAINTENANCE_COST,
                                            q.TOTAL_MAINTENANCE_COST)}}

\* Lines 848-857.
SummaryDf(data, now) ==
    SortedDesc(FillNa(LeftJoin(TotalCostDf(data), Last30DaysCostDf(data, now))))

\* Lines 870-873: select(FORKLIFT_ID, TOTAL_MAINTENANCE_COST).
SelectTotals(df) ==
    [k \in 1..Len(df) |->
        [FORKLIFT_ID |-> df[k].FORKLIFT_ID,
         TOTAL_MAINTENANCE_COST |-> df[k].TOTAL_MAINTENANCE_COST]]

\* Line 874: limit(n), the first n rows of the ordered result.
Limit(df, n) == SubSeq(df, 1, IF Len(df) < n THEN Len(df) ELSE n)

\* Line 874.
TopN == 5

\* Lines 868-876: the rows of top5_df for one execution of summary_df.
Top5Df(summary) == Limit(SelectTotals(summary), TopN)

-----------------------------------------------------------------------------
(* Analytics / Utilization (Last 30 Days) (lines 778-796).                 *)

\* Line 785: SHIFT_DATE >= DATEADD(day, -30, CURRENT_DATE()).
ShiftInLast30Days(row, now) == row.SHIFT_DATE >= now - WindowDays

\* END_HOUR_METER - START_HOUR_METER of one forklift's rows, summed.
RECURSIVE HoursOf(_, _)
HoursOf(data, forklift_id) ==
    IF data = <<>> THEN 0
    ELSE (IF Head(data).FORKLIFT_ID = forklift_id
          THEN Head(data).END_HOUR_METER - Head(data).START_HOUR_METER
          ELSE 0) + HoursOf(Tail(data), forklift_id)

\* COUNT(*) of one forklift's rows.
DaysOf(data, forklift_id) ==
    Cardinality({k \in 1..Len(data) : data[k].FORKLIFT_ID = forklift_id})

\* Lines 780-786: one row per forklift of the window; AVG_HOURS is kept as
\* the exact quotient <<sum, count>>.
UtilizationRows(data, now) ==
    LET recent == SelectSeq(data, LAMBDA row : ShiftInLast30Days(row, now)) IN
    {[FORKLIFT_ID |-> f,
      AVG_HOURS |-> <<HoursOf(recent, f), DaysOf(recent, f)>>,
      DAYS_LOGGED |-> DaysOf(recent, f)] : f \in GroupKeys(recent)}

\* a >= b for two quotients with positive counts.
AvgGeq(a, b) == a[1] * b[2] >= b[1] * a[2]

\* Line 787: ORDER BY AVG_HOURS DESC names no other key, so rows of equal
\* AVG_HOURS may come in any order.
UtilBefore(r, q) == AvgGeq(r.AVG_HOURS, q.AVG_HOURS)

\* Lines 779-788: the results one execution of the query may return.
RECURSIVE Utilization(_)
Utilization(rows) ==
    IF rows = {} THEN {<<>>}
    ELSE UNION {{<<m>> \o s : s \in Utilization(rows \ {m})} :
                   m \in {r \in rows : \A q \in rows : UtilBefore(r, q)}}

\* Line 793: round(x, 2), in hundredths; a half goes to the even neighbour.
Round2(avg) ==
    LET q == (100 * avg[1]) \div avg[2]
        r == (100 * avg[1]) % avg[2]
    IN IF 2 * r < avg[2] THEN q
       ELSE IF 2 * r > avg[2] THEN q + 1
       ELSE IF q % 2 = 0 THEN q ELSE q + 1

\* Lines 790-796: the table shown; nothing is shown for an empty result.
UtilizationTable(util) ==
    [k \in 1..Len(util) |->
        [Forklift |-> util[k].FORKLIFT_ID,
         AvgHoursPerDay |-> Round2(util[k].AVG_HOURS),
         DaysLogged |-> util[k].DAYS_LOGGED]]

\* One render of the Analytics page; the page reads and writes nothing.
\* Each of the three results is one execution of its query: summary_df is
\* executed once for the table of line 860 and once more for top5_df.
RenderAnalytics ==
    /\ \E util \in Utilization(UtilizationRows(usage_log, today)),
          summary \in SummaryDf(maintenance_records, today),
          again \in SummaryDf(maintenance_records, today) :
           ui' = Run("Analytics", <<>>, "done", {}, "", FALSE,
                     [utilization |-> UtilizationTable(util),
                      summary_df |-> summary,
                      top5_df |-> Top5Df(again)])
    /\ UNCHANGED <<store, today>>

NextAnalytics ==
    \/ \E i \in RecordInputs, ok \in BOOLEAN : LogMaintenance(i, ok)
    \/ RenderAnalytics

SpecAnalytics == Init /\ [][NextAnalytics]_vars

\* The Analytics page over logged usage.
NextUtilization ==
    \/ \E i \in UsageInputs, ok \in BOOLEAN : LogUsage(i, ok)
    \/ RenderAnalytics

SpecUtilization == Init /\ [][NextUtilization]_vars

-----------------------------------------------------------------------------
(* Analytics / Top 5 Most Expensive Forklifts (lines 864-890), rendered    *)
(* over fleets of up to MaxFleet forklifts with one logged record each.    *)

MaxFleet == 6

FleetId(k) == "FL-" \o ToString(k)

\* The cost entered for forklift k: nothing or 100 for the first two
\* forklifts, one of two neighbouring amounts for the others, so that
\* unset totals and equal totals both occur.
LowCost(k) == IF k <= 2 THEN 0 ELSE 100 * (k - 1)
HighCost(k) == IF k <= 2 THEN 100 ELSE 100 * k

\* The Log Maintenance submission for forklift k.
FleetRecordInput(k, cost) ==
    [forklift_id |-> FleetId(k), work_order_number |-> "",
     performed_date |-> Day0, hour_meter |-> 0, technician |-> "",
     task_description |-> "", parts_used |-> "", labor_hours |-> 0,
     cost |-> cost, downtime_hours |-> 0, status |-> "Completed",
     clock |-> "09:30"]

\* The store after those submissions were accepted, one per forklift.
InitTop5 ==
    /\ forklifts = <<>>
    /\ operators = <<>>
    /\ batteries = <<>>
    /\ usage_log = <<>>
    /\ maintenance_schedule = <<>>
    /\ \E n \in 0..MaxFleet, low \in SUBSET (1..MaxFleet) :
           /\ low \subseteq 1..n
           /\ maintenance_records =
                  [k \in 1..n |->
                      RecordRow(FleetRecordInput(k, IF k \in low THEN LowCost(k)
                                                    ELSE HighCost(k)),
                                Timestamp(Day0, "09:30"))]
    /\ faults = <<>>
    /\ today = Day0
    /\ ui = Run("start", <<>>, "done", {}, "", FALSE, NoView)

NextTop5 == RenderAnalytics

SpecTop5 == InitTop5 /\ [][NextTop5]_vars

-----------------------------------------------------------------------------
(* Fault Reporting / Report Fault (lines 669-768).                         *)

\* A variant of the test that looks at the Forklift ID alone.
FaultInvalidIdOnly(i) == i.forklift_id = ""

\* Line 718.
FaultInvalid(i) == i.forklift_id = "" \/ i.description = ""

\* Lines 722-730: midnight of the entered date, None when none was entered.
ResolvedTs(resolved_date) ==
    IF resolved_date # NULL
    THEN Some(Timestamp(CHOOSE d \in resolved_date : TRUE, Midnight))
    ELSE NULL

\* A variant that takes the form's Reported Date when one was entered.
ReportedTsFromForm(i, now) ==
    IF i.reported_date # NULL
    THEN Timestamp(CHOOSE d \in i.reported_date : TRUE, Midnight)
    ELSE now

\* Line 721: reported_ts = datetime.now(); the reported_date of line 676 is
\* not read.
ReportedTs(i, now) == now

\* Lines 732-761.
FaultRow(i, now) ==
    [FORKLIFT_ID |-> i.forklift_id,
     REPORTED_DATE |-> ReportedTs(i, now),
     REPORTED_BY |-> OrNone(i.reported_by, ""),
     FAULT_CODE |-> OrNone(i.fault_code, ""),
     DESCRIPTION |-> i.description,
     PRIORITY |-> i.priority,
     STATUS |-> i.status,
     RESOLVED_DATE |-> ResolvedTs(i.resolved_date),
     ROOT_CAUSE |-> OrNone(i.root_cause, ""),
     RESOLUTION_NOTES |-> OrNone(i.resolution_notes, ""),
     DOWNTIME_HOURS |-> OrNone(i.downtime_hours, 0)]

SubmitFault(i, ok) ==
    /\ TotalRows < MaxRows
    /\ IF FaultInvalid(i)
       THEN \* st.error; the script runs on to its end
            /\ UNCHANGED faults
            /\ ui' = Run("SubmitFault", i, "done", {"error"}, "", FALSE, NoView)
       ELSE \* no try/except around line 763
            /\ faults' =
                   IF NowThenWriteRaised(ok) = "AttributeError" THEN faults
                   ELSE SaveAsTable(faults,
                                    FaultRow(i, Timestamp(today, i.clock)), ok)
            /\ ui' = LET raised == NowThenWriteRaised(ok) IN
                     IF raised = ""
                     THEN Run("SubmitFault", i, "rerun", {"success"}, "", TRUE, NoView)
                     ELSE Run("SubmitFault", i, "uncaught", {}, raised,
                              raised = "QueryError", NoView)
    /\ UNCHANGED <<forklifts, operators, batteries, usage_log,
                   maintenance_schedule, maintenance_records, today>>

\* The two date inputs start unset (value=None) and may stay so.
FaultInputs ==
    {i \in [forklift_id : {"", "FL-1"},
            reported_date : {NULL, Some(Day0 - 1)},
            reported_by : {"", "E1"},
            fault_code : {""},
            description : {"", "Leak"},
            priority : {"Medium"},
            status : {"Open"},
            resolved_date : {NULL, Some(Day0)},
            root_cause : {""},
            resolution_notes : {""},
            downtime_hours : {0},
            clock : ClockTimes] :
        i.forklift_id # "" \/ i.description # ""}

NextFaults == \E i \in FaultInputs, ok \in BOOLEAN : SubmitFault(i, ok)

SpecFaults == Init /\ [][NextFaults]_vars

-----------------------------------------------------------------------------
(* The whole application: any page, any button, in any order.  Each page   *)
(* is tried with a few of its inputs, a valid and an invalid one among     *)
(* them.                                                                   *)

SomeForklifts ==
    {i \in ForkliftInputs : i.forklift_id = "FL-1" /\ i.status = "Operational"}
SomeOperators ==
    {i \in OperatorInputs : i.full_name = "Ada" /\ i.is_active}
SomeBatteries ==
    {i \in BatteryInputs :
        i.serial = "BX-9" /\ i.health = 92 /\ i.status = "Charging"}
SomeUsages ==
    {i \in UsageInputs :
        i.forklift_id = "FL-1" /\ i.start_hour_meter = 1 /\ i.battery_end_soc = 0}
SomeTasks ==
    {i \in TaskInputs : i.frequency_months = 2 /\ i.frequency_hours = 10}
SomeRecords ==
    {i \in RecordInputs : i.performed_date = Day0 /\ i.cost = 100}
SomeFaults ==
    {i \in FaultInputs : i.reported_date = NULL /\ i.resolved_date = NULL}

\* The pages whose first (for Usage Logging, second) tab lists a table.
ListingPages ==
    {"Fleet Management", "Operator Management", "Battery Management",
     "Usage Logging", "Maintenance", "Maintenance History", "Fault Reporting"}

\* The rows the page's listing reads (lines 84, 187, 260, 421, 444, 539,
\* 659).
ListingData(page) ==
    CASE page = "Fleet Management" -> forklifts
      [] page = "Operator Management" -> operators
      [] page = "Battery Management" -> batteries
      [] page = "Usage Logging" -> usage_log
      [] page = "Maintenance" -> maintenance_schedule
      [] page = "Maintenance History" -> maintenance_records
      [] page = "Fault Reporting" -> faults

\* What the listing's branch for an empty read calls: st.info (lines 192,
\* 449, 544, 664), st.write (line 426), or nothing where the `if` has no
\* else (lines 85-97 and 261-263).
NoDataElement(page) ==
    CASE page = "Fleet Management" -> "none"
      [] page = "Operator Management" -> "st.info"
      [] page = "Battery Management" -> "none"
      [] page = "Usage Logging" -> "st.write"
      [] page = "Maintenance" -> "st.info"
      [] page = "Maintenance History" -> "st.info"
      [] page = "Fault Reporting" -> "st.info"

\* One run of a listing page with no button pressed: the listing shows the
\* rows read, or the element of its empty branch.
RenderPage(page) ==
    /\ ui' = LET data == ListingData(page)
                 element == IF data = <<>> THEN NoDataElement(page) ELSE "none"
             IN Run("View", [page |-> page], "done",
                    IF element = "st.info" THEN {"info"} ELSE {}, "", FALSE,
                    [listing |-> data, nodata |-> element])
    /\ UNCHANGED <<store, today>>

Next ==
    \/ \E page \in ListingPages : RenderPage(page)
    \/ \E i \in SomeForklifts, ok \in BOOLEAN : AddForklift(i, ok)
    \/ \E i \in SomeOperators, ok \in BOOLEAN : AddOperator(i, ok)
    \/ \E selected \in OpMapKeys(operators), ok \in BOOLEAN :
           DeleteOperator(selected, ok)
    \/ \E i \in SomeBatteries, ok \in BOOLEAN : AddBattery(i, ok)
    \/ \E i \in SomeUsages, ok \in BOOLEAN : LogUsage(i, ok)
    \/ \E i \in SomeTasks, ok \in BOOLEAN : SaveMaintenanceTask(i, ok)
    \/ \E i \in SomeRecords, ok \in BOOLEAN : LogMaintenance(i, ok)
    \/ \E i \in SomeFaults, ok \in BOOLEAN : SubmitFault(i, ok)
    \/ RenderAnalytics

Spec == Init /\ [][Next]_vars

-----------------------------------------------------------------------------
(* Properties.  A step of a run is known by ui', which names the button    *)
(* pressed and the inputs submitted.                                       *)

\* C1: a 'Log Usage' submission with end_hour_meter < start_hour_meter is
\* rejected with an error message, sends no write and leaves USAGE_LOG
\* unchanged; a submission with end_hour_meter >= start_hour_meter (equal
\* readings included) is not rejected: its one write is sent and, the store
\* accepting it, USAGE_LOG is the old table with exactly one row appended,
\* the submitted one.
C1_UsageRejectedBelowStart ==
    [][ui'.op = "LogUsage" =>
          LET i == ui'.input IN
          IF i.end_hour_meter < i.start_hour_meter
          THEN /\ usage_log' = usage_log
               /\ "error" \in ui'.banners
               /\ ~ui'.wrote
          ELSE /\ ui'.wrote
               /\ "error" \notin ui'.banners
               /\ IF ui'.exc = "QueryError"
                  THEN usage_log' = usage_log
                  ELSE /\ Len(usage_log') = Len(usage_log) + 1
                       /\ SubSeq(usage_log', 1, Len(usage_log)) = usage_log
                       /\ LET row == usage_log'[Len(usage_log')] IN
                          /\ row.FORKLIFT_ID = i.forklift_id
                          /\ row.START_HOUR_METER = i.start_hour_meter
                          /\ row.END_HOUR_METER = i.end_hour_meter
                          /\ row.BATTERY_START_SOC = i.battery_start_soc
                          /\ row.BATTERY_END_SOC = i.battery_end_soc]_vars

\* C1's case: a submission with end < start has just been turned away, while
\* an earlier one with equal readings is in the table.
C1_Witness ==
    /\ ui.op = "LogUsage"
    /\ ui.input.end_hour_meter < ui.input.start_hour_meter
    /\ ui.outcome = "stop"
    /\ \E k \in 1..Len(usage_log) :
           usage_log[k].END_HOUR_METER = usage_log[k].START_HOUR_METER

\* C2: a 'Save Maintenance Task' submission with an empty Forklift ID or
\* Task Name shows an error, sends no write and leaves MAINTENANCE_SCHEDULE
\* unchanged.
C2_InvalidTaskNotWritten ==
    [][(/\ ui'.op = "SaveMaintenanceTask"
        /\ (ui'.input.forklift_id = "" \/ ui'.input.task_name = ""))
          => /\ "error" \in ui'.banners
             /\ ~ui'.wrote
             /\ maintenance_schedule' = maintenance_schedule]_vars

\* The row a run appended to the schedule.
TaskAccepted ==
    /\ ui'.op = "SaveMaintenanceTask"
    /\ ui'.input.forklift_id # "" /\ ui'.input.task_name # ""
    /\ Len(maintenance_schedule') = Len(maintenance_schedule) + 1
StoredTask == maintenance_schedule'[Len(maintenance_schedule')]

\* C3: for an accepted maintenance task with frequency_months > 0 the stored
\* NEXT_DUE_DATE is the last performed date plus frequency_months * 30 days,
\* and with frequency_hours > 0 the stored NEXT_DUE_HOURS is the last
\* performed hour meter plus frequency_hours.
C3_NextDueComputed ==
    [][TaskAccepted =>
          LET i == ui'.input IN
          /\ i.frequency_months > 0 =>
                 StoredTask.NEXT_DUE_DATE = Some(i.last_date + i.frequency_months * 30)
          /\ i.frequency_hours > 0 =>
                 StoredTask.NEXT_DUE_HOURS = Some(i.last_hours + i.frequency_hours)]_vars

\* C4: for an accepted maintenance task with frequency_months = 0 the stored
\* NEXT_DUE_DATE is NULL, and with frequency_hours = 0 the stored
\* NEXT_DUE_HOURS is NULL.
C4_NextDueUnset ==
    [][TaskAccepted =>
          LET i == ui'.input IN
          /\ i.frequency_months = 0 => StoredTask.NEXT_DUE_DATE = NULL
          /\ i.frequency_hours = 0 => StoredTask.NEXT_DUE_HOURS = NULL]_vars

\* C5: after an 'Add Battery' submission within the widget bounds that the
\* store does not refuse, BATTERIES holds exactly one more row, carrying the
\* submitted id, serial, voltage, capacity, health and status, with
\* FORKLIFT_ID NULL for the choice "None" and the chosen forklift otherwise.
C5_BatteryAdded ==
    [][(ui'.op = "AddBattery" /\ ui'.exc # "QueryError") =>
          LET i == ui'.input IN
          /\ Len(batteries') = Len(batteries) + 1
          /\ SubSeq(batteries', 1, Len(batteries)) = batteries
          /\ LET row == batteries'[Len(batteries')] IN
             /\ row.BATTERY_ID = i.battery_id
             /\ row.BATTERY_SERIAL = i.serial
             /\ row.VOLTAGE = i.voltage
             /\ row.CAPACITY_AH = i.ah
             /\ row.HEALTH_PERCENTAGE = i.health
             /\ row.STATUS = i.status
             /\ row.FORKLIFT_ID =
                    (IF i.assigned = "None" THEN NULL ELSE {i.assigned})]_vars

\* C6: after an 'Add Forklift' submission whose write the store accepts,
\* FORKLIFTS is the old table, every row unchanged, with exactly one row
\* appended; that row carries the submitted id, serial, model, year,
\* capacity, location, status and notes, the warranty expiry or NULL when
\* the box is unticked, and NULL for BATTERY_ID and UPDATED_AT.
C6_ForkliftAdded ==
    [][(ui'.op = "AddForklift" /\ ui'.exc # "QueryError") =>
          LET i == ui'.input IN
          /\ Len(forklifts') = Len(forklifts) + 1
          /\ SubSeq(forklifts', 1, Len(forklifts)) = forklifts
          /\ LET row == forklifts'[Len(forklifts')] IN
             /\ row.FORKLIFT_ID = i.forklift_id
             /\ row.SERIAL_NUMBER = i.serial_number
             /\ row.MODEL = i.model
             /\ row.MANUFACTURE_YEAR = i.manufacture_year
             /\ row.RATED_CAPACITY_KG = i.capacity
             /\ row.LOCATION_SITE = i.location
             /\ row.STATUS = i.status
             /\ row.NOTES = i.notes
             /\ row.WARRANTY_EXPIRY =
                    (IF i.has_warranty THEN {i.warranty_date} ELSE NULL)
             /\ row.BATTERY_ID = NULL
             /\ row.UPDATED_AT = NULL]_vars

\* C6's case: a forklift submitted with the warranty box unticked has been
\* added to a table that already held a row.
C6_Witness ==
    /\ ui.op = "AddForklift"
    /\ ui.outcome = "rerun"
    /\ ~ui.input.has_warranty
    /\ Len(forklifts) = 2
    /\ forklifts[2].FORKLIFT_ID = ui.input.forklift_id
    /\ forklifts[2].WARRANTY_EXPIRY = NULL

\* C7: 'Delete Operator' removes from OPERATORS exactly the rows whose
\* EMPLOYEE_ID is the selected key and no other row, and ends as a success,
\* also when no row matches.
C7_DeleteRemovesSelected ==
    [][(ui'.op = "DeleteOperator" /\ ui'.exc # "QueryError") =>
          /\ operators' =
                 SelectSeq(operators,
                           LAMBDA row : row.EMPLOYEE_ID # ui'.input.op_id)
          /\ ui'.outcome = "rerun"
          /\ "error" \notin ui'.banners]_vars

\* C8: whenever the round trip of a write fails, the run ends showing an
\* error message, no exception leaves the script, and no table is changed.
C8_WriteFailureCaught ==
    [][(ui'.wrote /\ ui'.exc \in {"QueryError", "SQLCompilationError"}) =>
          /\ "error" \in ui'.banners
          /\ ui'.outcome # "uncaught"
          /\ store' = store]_vars

\* C9: an 'Add Operator' click with an empty Full Name or Employee ID shows
\* the validation message, sends no write, leaves OPERATORS unchanged, and
\* no exception leaves the script.
C9_InvalidOperatorAborted ==
    [][(/\ ui'.op = "AddOperator"
        /\ (ui'.input.full_name = "" \/ ui'.input.employee_id = ""))
          => /\ "error" \in ui'.banners
             /\ ~ui'.wrote
             /\ operators' = operators
             /\ ui'.outcome # "uncaught"]_vars

\* The records of one forklift, as positions in MAINTENANCE_RECORDS, and
\* those of them performed on or after the day 30 days before today.
RecordsOf(f) ==
    {k \in 1..Len(maintenance_records) : maintenance_records[k].FORKLIFT_ID = f}
RecentRecordsOf(f) ==
    {k \in RecordsOf(f) : maintenance_records[k].PERFORMED_DATE >= today - 30}

\* The costs of the records at the given positions, added up; a record with
\* no cost set adds nothing.
RECURSIVE CostOver(_)
CostOver(ks) ==
    IF ks = {} THEN 0
    ELSE LET k == CHOOSE x \in ks : TRUE
             c == maintenance_records[k].COST
         IN (IF c = NULL THEN 0 ELSE ValueOf(c)) + CostOver(ks \ {k})

HasCost(ks) == \E k \in ks : maintenance_records[k].COST # NULL

\* C10: in the cost summary the Analytics page shows, every forklift with a
\* maintenance record has exactly one row and there is no other row; the
\* row's TOTAL_MAINTENANCE_COST is the sum of COST over the forklift's
\* records (no value when none of them has a cost set), and its
\* LAST_30_DAYS_COST is the sum of COST over its records of the last 30
\* days, 0 and never NULL when it has none.
C10_CostSummary ==
    ui.op = "Analytics" =>
        LET s == ui.view.summary_df IN
        /\ \A f \in {maintenance_records[k].FORKLIFT_ID :
                        k \in 1..Len(maintenance_records)} :
               Cardinality({k \in DOMAIN s : s[k].FORKLIFT_ID = f}) = 1
        /\ \A k \in DOMAIN s :
               LET f == s[k].FORKLIFT_ID IN
               /\ RecordsOf(f) # {}
               /\ s[k].TOTAL_MAINTENANCE_COST =
                      (IF HasCost(RecordsOf(f)) THEN {CostOver(RecordsOf(f))}
                       ELSE NULL)
               /\ s[k].LAST_30_DAYS_COST = {CostOver(RecentRecordsOf(f))}

\* C10's case: the summary shows a forklift with an all-time cost and no
\* record in the last 30 days, next to another forklift's row.
C10_Witness ==
    /\ ui.op = "Analytics"
    /\ Len(ui.view.summary_df) = 2
    /\ \E k \in DOMAIN ui.view.summary_df :
           LET r == ui.view.summary_df[k] IN
           /\ RecentRecordsOf(r.FORKLIFT_ID) = {}
           /\ r.TOTAL_MAINTENANCE_COST = {100}
           /\ r.LAST_30_DAYS_COST = {0}

-----------------------------------------------------------------------------
\* The forklifts with a maintenance record and their all-time totals.
WithRecords ==
    {maintenance_records[k].FORKLIFT_ID : k \in 1..Len(maintenance_records)}
AllTimeTotal(f) ==
    IF HasCost(RecordsOf(f)) THEN {CostOver(RecordsOf(f))} ELSE NULL

\* a is a total and b is none, or a smaller one.
GreaterTotal(a, b) == a # NULL /\ (b = NULL \/ ValueOf(a) > ValueOf(b))

Top5Included == {ui.view.top5_df[k].FORKLIFT_ID : k \in DOMAIN ui.view.top5_df}

\* C11: the Top 5 result the Analytics page charts holds min(5, number of
\* forklifts with records) forklifts, each once and with its all-time total,
\* and no forklift left out has a strictly greater total than a forklift
\* included; a forklift whose records all have no cost has no total and is
\* greater than none.
C11_Top5Highest ==
    ui.op = "Analytics" =>
        LET top == ui.view.top5_df IN
        /\ Len(top) = (IF Cardinality(WithRecords) < 5
                       THEN Cardinality(WithRecords) ELSE 5)
        /\ Cardinality(Top5Included) = Len(top)
        /\ Top5Included \subseteq WithRecords
        /\ \A k \in DOMAIN top :
               top[k].TOTAL_MAINTENANCE_COST = AllTimeTotal(top[k].FORKLIFT_ID)
        /\ \A f \in WithRecords \ Top5Included, g \in Top5Included :
               ~GreaterTotal(AllTimeTotal(f), AllTimeTotal(g))

\* C11's case: more than five forklifts have records, the one left out has
\* no cost in any record, and one with a total of 100 is charted.
C11_Witness ==
    /\ ui.op = "Analytics"
    /\ Cardinality(WithRecords) > 5
    /\ \E f \in WithRecords \ Top5Included : AllTimeTotal(f) = NULL
    /\ \E g \in Top5Included : AllTimeTotal(g) = {100}

-----------------------------------------------------------------------------
\* C12: in every state of the store, each row of USAGE_LOG has
\* END_HOUR_METER >= START_HOUR_METER and both SOC values in [0, 100], and
\* each row of BATTERIES has HEALTH_PERCENTAGE in [0, 100].
C12_RowsWithinBounds ==
    /\ \A k \in 1..Len(usage_log) :
           /\ usage_log[k].END_HOUR_METER >= usage_log[k].START_HOUR_METER
           /\ usage_log[k].BATTERY_START_SOC \in 0..100
           /\ usage_log[k].BATTERY_END_SOC \in 0..100
    /\ \A k \in 1..Len(batteries) :
           batteries[k].HEALTH_PERCENTAGE \in 0..100

\* C12's case: a usage row with equal hour meters and the two SOC values at
\* the ends of the range is stored, and a battery with health 100 was
\* submitted.
C12_Witness ==
    /\ \E k \in 1..Len(usage_log) :
           /\ usage_log[k].END_HOUR_METER = usage_log[k].START_HOUR_METER
           /\ usage_log[k].BATTERY_START_SOC = 100
           /\ usage_log[k].BATTERY_END_SOC = 0
    /\ ui.op = "AddBattery"
    /\ ui.input.health = 100

-----------------------------------------------------------------------------
\* Every row of s is still in its place in t.
IsPrefix(s, t) == Len(s) <= Len(t) /\ SubSeq(t, 1, Len(s)) = s

\* C13: no run removes or alters a stored row of FORKLIFTS, BATTERIES,
\* USAGE_LOG, MAINTENANCE_SCHEDULE, MAINTENANCE_RECORDS or FAULTS; a run
\* that removes or alters a row of OPERATORS is an Operator delete; and an
\* Operator delete leaves the six other tables, FAULTS among them, as they
\* were.
C13_AppendOnlyExceptOperators ==
    [][/\ IsPrefix(forklifts, forklifts')
       /\ IsPrefix(batteries, batteries')
       /\ IsPrefix(usage_log, usage_log')
       /\ IsPrefix(maintenance_schedule, maintenance_schedule')
       /\ IsPrefix(maintenance_records, maintenance_records')
       /\ IsPrefix(faults, faults')
       /\ ~IsPrefix(operators, operators') => ui'.op = "DeleteOperator"
       /\ ui'.op = "DeleteOperator" =>
              <<forklifts, batteries, usage_log, maintenance_schedule,
                maintenance_records, faults>>' =
              <<forklifts, batteries, usage_log, maintenance_schedule,
                maintenance_records, faults>>]_vars

\* C13's case: an Operator delete has run for an operator that a stored
\* fault names in REPORTED_BY, and the fault is in place.
C13_Witness ==
    /\ ui.op = "DeleteOperator"
    /\ \E k \in 1..Len(faults) : faults[k].REPORTED_BY = {ui.input.op_id}

-----------------------------------------------------------------------------
\* C14: a render of the Analytics page leaves every table unchanged, and a
\* render that follows another render, the data being the same, shows the
\* utilization rows the first one showed, in the same order.
C14_RenderIdempotent ==
    [][ui'.op = "Analytics" =>
           /\ store' = store
           /\ ui.op = "Analytics" =>
                  ui'.view.utilization = ui.view.utilization]_vars

-----------------------------------------------------------------------------
\* C15: a listing page whose read returned no rows shows a "no data"
\* message.
C15_NoDataMessage ==
    (ui.op = "View" /\ ui.view.listing = <<>>) =>
        ui.view.nodata \in {"st.info", "st.write"}

-----------------------------------------------------------------------------
\* C16: an Add Forklift submission with an empty Forklift ID, Serial Number
\* or Model shows an error, sends no write and leaves FORKLIFTS as it was.
C16_RequiredFieldsValidated ==
    [][(/\ ui'.op = "AddForklift"
        /\ \/ ui'.input.forklift_id = ""
           \/ ui'.input.serial_number = ""
           \/ ui'.input.model = "") =>
           /\ "error" \in ui'.banners
           /\ ~ui'.wrote
           /\ forklifts' = forklifts]_vars

-----------------------------------------------------------------------------
\* C17: a run changes at most one table and adds at most one row to it; an
\* Add Battery submission leaves FORKLIFTS as it was, whatever forklift the
\* battery is assigned to; a Log Maintenance submission without Forklift ID
\* and a Submit Fault submission without Forklift ID or without Description
\* change no table.
C17_OneTableOneRow ==
    [][/\ Cardinality({k \in 1..7 : store'[k] # store[k]}) <= 1
       /\ \A k \in 1..7 : Len(store'[k]) <= Len(store[k]) + 1
       /\ ui'.op = "AddBattery" => forklifts' = forklifts
       /\ (ui'.op = "LogMaintenance" /\ ui'.input.forklift_id = "") =>
              store' = store
       /\ (/\ ui'.op = "SubmitFault"
           /\ ui'.input.forklift_id = "" \/ ui'.input.description = "") =>
              store' = store]_vars

\* C17's case: a battery was submitted as assigned to a stored forklift,
\* whose BATTERY_ID is still unset.
C17_Witness ==
    /\ ui.op = "AddBattery"
    /\ \E k \in 1..Len(forklifts) :
           /\ forklifts[k].FORKLIFT_ID = ui.input.assigned
           /\ forklifts[k].BATTERY_ID = NULL

-----------------------------------------------------------------------------
\* What is stored for an entered value: nothing for 0 and for the empty
\* text, the value otherwise.
StoredNumber(x) == IF x = 0 THEN NULL ELSE {x}
StoredText(x) == IF x = "" THEN NULL ELSE {x}

\* C18: the row an accepted Log Maintenance submission appends has NULL in
\* HOUR_METER, LABOR_HOURS, COST and DOWNTIME_HOURS where 0 was entered and
\* NULL in each optional text column left empty; and in the cost summary a
\* forklift none of whose records has a cost stored has no total.
C18_ZeroStoredAsNull ==
    [][/\ (ui'.op = "LogMaintenance" /\ ui'.outcome = "rerun") =>
              LET i == ui'.input
                  row == maintenance_records'[Len(maintenance_records')]
              IN /\ row.HOUR_METER = StoredNumber(i.hour_meter)
                 /\ row.LABOR_HOURS = StoredNumber(i.labor_hours)
                 /\ row.COST = StoredNumber(i.cost)
                 /\ row.DOWNTIME_HOURS = StoredNumber(i.downtime_hours)
                 /\ row.WORK_ORDER_NUMBER = StoredText(i.work_order_number)
                 /\ row.TECHNICIAN = StoredText(i.technician)
                 /\ row.TASK_DESCRIPTION = StoredText(i.task_description)
                 /\ row.PARTS_USED = StoredText(i.parts_used)
       /\ ui'.op = "Analytics" =>
              \A k \in DOMAIN ui'.view.summary_df :
                  LET r == ui'.view.summary_df[k] IN
                  (\A j \in 1..Len(maintenance_records') :
                       maintenance_records'[j].FORKLIFT_ID = r.FORKLIFT_ID =>
                           maintenance_records'[j].COST = NULL)
                      => r.TOTAL_MAINTENANCE_COST = NULL]_vars

\* C18's case: two records entered with cost 0 are stored for one forklift
\* and the summary shows the forklift without a total.
C18_Witness ==
    /\ ui.op = "Analytics"
    /\ \E k \in DOMAIN ui.view.summary_df :
           LET r == ui.view.summary_df[k] IN
           /\ Cardinality(RecordsOf(r.FORKLIFT_ID)) = 2
           /\ \A j \in RecordsOf(r.FORKLIFT_ID) :
                  maintenance_records[j].COST = NULL
           /\ r.TOTAL_MAINTENANCE_COST = NULL

-----------------------------------------------------------------------------
\* C19: the row an accepted fault submission appends has, as REPORTED_DATE,
\* the day and time of the submission, whatever Reported Date the form
\* holds, and, as RESOLVED_DATE, 00:00 of the Resolved Date entered, or
\* NULL when none was entered.
C19_FaultDates ==
    [][(ui'.op = "SubmitFault" /\ ui'.outcome = "rerun") =>
           LET i == ui'.input
               row == faults'[Len(faults')]
           IN /\ row.REPORTED_DATE = [day |-> today, time |-> i.clock]
              /\ row.RESOLVED_DATE =
                     (IF i.resolved_date = NULL THEN NULL
                      ELSE {[day |-> d, time |-> "00:00"] :
                               d \in i.resolved_date})]_vars

\* C19's case: a fault entered with yesterday as Reported Date and today as
\* Resolved Date was accepted.
C19_Witness ==
    /\ ui.op = "SubmitFault"
    /\ ui.outcome = "rerun"
    /\ ui.input.reported_date = {today - 1}
    /\ ui.input.resolved_date = {today}
    /\ faults[Len(faults)].REPORTED_DATE.day = today

====
